---------------------------- MODULE Spec2Model ----------------------------
(***************************************************************************)
(* A model of two parts of legend-studio:                                  *)
(*                                                                         *)
(*  1. INTERNAL__UnknownPackageableElement: the fallback graph element     *)
(*     that keeps the raw payload of an element of an unrecognized kind,   *)
(*     its hash (_elementHashCode) and its visitor dispatch                *)
(*     (accept_PackageableElementVisitor).                                 *)
(*  2. ServiceRegisterModal: the form state of the modal, its change       *)
(*     handlers and the asynchronous registerService callback, one         *)
(*     process per click, suspended at every await.                        *)
(*                                                                         *)
(* The two parts share no state.  ElementSpec runs the element's           *)
(* operations, ModalSpec (and ModalFairSpec) the modal's.                  *)
(*                                                                         *)
(* Digests (hashValue) are modelled as collision-free: a digest is the     *)
(* tagged value it was computed from, so two digests are equal exactly     *)
(* when their inputs are.                                                  *)
(***************************************************************************)
EXTENDS Integers, Sequences, FiniteSets, TLC

VARIABLES
    elements,           \* element object -> <<>> | <<[path, content]>>
    lastRead,           \* the latest read of hashCode: <<>> | <<record>>
    lastOp,             \* the latest other operation on an element
    form,               \* the modal's React state, as rendered
    registrationState,  \* the modal's ActionState
    run,                \* one record per registerService invocation
    actionAlertInfo,    \* applicationStore's action alert: <<>> | <<alert>>
    errorLog,           \* applicationStore.log.error calls
    notifications       \* applicationStore.notifyError / unhandled alerts

elementVars == <<elements, lastRead, lastOp>>
modalVars == <<form, registrationState, run, actionAlertInfo, errorLog,
               notifications>>
vars == <<elements, lastRead, lastOp, form, registrationState, run,
          actionAlertInfo, errorLog, notifications>>

---------------------------------------------------------------------------
(* Part 1: INTERNAL__UnknownPackageableElement                             *)

\* Largest value of the semantic field content.bar the model draws.
MaxBar == 2

Elements == {"e1", "e2"}
Paths == {"model::Foo", "model::Bar"}

\* The kinds the running build has a typed variant for, and one it has not.
KnownKinds == {"class"}
UnknownKinds == {"futureKind"}

SOURCE_INFORMATION_KEY == "sourceInformation"

\* A PlainObject is its discriminator and its leaves, each leaf addressed
\* by the sequence of keys leading to it:
\*   {_type, bar, sourceInformation?, child: {baz, sourceInformation?}}
SemanticLeaves == {<<"bar">>, <<"child", "baz">>}
SourceLeaves == {<<SOURCE_INFORMATION_KEY>>, <<"child", SOURCE_INFORMATION_KEY>>}

\* bar is drawn from 1..MaxBar, child.baz is 1, a source information leaf
\* holds a line number.
LeafValues(leaf) ==
    IF leaf = <<"bar">> THEN 1..MaxBar
    ELSE IF leaf = <<"child", "baz">> THEN {1}
    ELSE {10}

PropsOver(D) == {f \in [D -> UNION {LeafValues(leaf) : leaf \in D}] :
                    \A leaf \in D : f[leaf] \in LeafValues(leaf)}

PlainObjects(kinds) ==
    {[_type |-> k, props |-> f] :
        k \in kinds,
        f \in UNION {PropsOver(SemanticLeaves \cup S) : S \in SUBSET SourceLeaves}}

Payloads == PlainObjects(KnownKinds \cup UnknownKinds)
Contents == PlainObjects(UnknownKinds)

\* excludeKeys of hashObjectWithoutSourceInformation: a property is left
\* out, with everything below it, when its key is a source information key.
IsSourceInformationKey(key) == key = SOURCE_INFORMATION_KEY

ExcludedLeaf(leaf) == \E i \in DOMAIN leaf : IsSourceInformationKey(leaf[i])

\* A collision-free digest of a value.
hashValue(val) == <<"digest", val>>

\* hashObject(val, {excludeKeys}): the digest of the object without the
\* excluded properties.
hashObjectWithoutSourceInformation(val) ==
    hashValue([_type |-> val._type,
               props |-> [leaf \in {l \in DOMAIN val.props : ~ExcludedLeaf(l)}
                            |-> val.props[leaf]]])

\* hashArray(arr): every entry is digested, the digests are joined and the
\* result is digested again.
hashArray(arr) == hashValue([i \in DOMAIN arr |-> hashValue(arr[i])])

CORE_HASH_STRUCTURE_INTERNAL__UNKNOWN_PACKAGEABLE_ELEMENT ==
    "INTERNAL__UNKNOWN_PACKAGEABLE_ELEMENT"

Live(e) == elements[e] # <<>>
El(e) == elements[e][1]

\* Plausible slips of _elementHashCode: the content hashed with its source
\* information, the path left out, the hash stored at the first read, an
\* error for a kind that is not known.
elementHashCode_KeepsSourceInformation(e) ==
    [threw |-> FALSE,
     value |-> hashArray(<<CORE_HASH_STRUCTURE_INTERNAL__UNKNOWN_PACKAGEABLE_ELEMENT,
                           El(e).path,
                           hashValue(El(e).content)>>)]

elementHashCode_WithoutPath(e) ==
    [threw |-> FALSE,
     value |-> hashArray(<<CORE_HASH_STRUCTURE_INTERNAL__UNKNOWN_PACKAGEABLE_ELEMENT,
                           hashObjectWithoutSourceInformation(El(e).content)>>)]

elementHashCode_Stored(e) ==
    IF lastRead # <<>> /\ lastRead[1].elem = e
    THEN [threw |-> FALSE, value |-> lastRead[1].hashCode]
    ELSE [threw |-> FALSE,
          value |-> hashArray(<<CORE_HASH_STRUCTURE_INTERNAL__UNKNOWN_PACKAGEABLE_ELEMENT,
                                El(e).path,
                                hashObjectWithoutSourceInformation(El(e).content)>>)]

elementHashCode_RejectsUnknownKind(e) ==
    [threw |-> ~(El(e).content._type \in KnownKinds),
     value |-> hashArray(<<CORE_HASH_STRUCTURE_INTERNAL__UNKNOWN_PACKAGEABLE_ELEMENT,
                           El(e).path,
                           hashObjectWithoutSourceInformation(El(e).content)>>)]

\* get _elementHashCode(): computed from the element's current fields on
\* every read; none of the three calls throws.
_elementHashCode(e) ==
    [threw |-> FALSE,
     value |-> hashArray(<<CORE_HASH_STRUCTURE_INTERNAL__UNKNOWN_PACKAGEABLE_ELEMENT,
                           El(e).path,
                           hashObjectWithoutSourceInformation(El(e).content)>>)]


\* The methods of a PackageableElementVisitor, one per element variant.
VisitorMethods == {"visit_INTERNAL__UnknownPackageableElement", "visit_Class"}
Visitors == {"serializer", "validator"}

\* What visitor v's method returns for element e: a value of the visitor's
\* own, different for every visitor, method and argument.
Invoke(v, method, e) == <<v, method, e>>

\* A slip of accept_PackageableElementVisitor: another variant's method.
Accept_WrongMethod(e, v) ==
    [calls |-> <<[method |-> "visit_Class", arg |-> e]>>,
     result |-> Invoke(v, "visit_Class", e),
     threw |-> FALSE]

\* accept_PackageableElementVisitor(visitor): one call, of the unknown
\* element's own method, with this; its result is returned.
accept_PackageableElementVisitor(e, v) ==
    [calls |-> <<[method |-> "visit_INTERNAL__UnknownPackageableElement",
                  arg |-> e]>>,
     result |-> Invoke(v, "visit_INTERNAL__UnknownPackageableElement", e),
     threw |-> FALSE]

UNKNOWN_VARIANT == "INTERNAL__UnknownPackageableElement"

\* A slip of the deserializer: the stored content loses its source
\* information.
DeserializeElement_DropsSourceInformation(path, payload) ==
    IF payload._type \in KnownKinds
    THEN [variant |-> "typed", threw |-> FALSE, element |-> <<>>]
    ELSE [variant |-> UNKNOWN_VARIANT, threw |-> FALSE,
          element |-> <<[path |-> path,
                         content |-> [_type |-> payload._type,
                                      props |-> [leaf \in {l \in DOMAIN payload.props : ~ExcludedLeaf(l)}
                                                   |-> payload.props[leaf]]]]>>]

\* The graph deserializer: a payload of a known kind goes to that kind's
\* typed variant (not modelled further); any other payload becomes an
\* unknown element that holds the payload itself as content.
DeserializeElement(path, payload) ==
    IF payload._type \in KnownKinds
    THEN [variant |-> "typed", threw |-> FALSE, element |-> <<>>]
    ELSE [variant |-> UNKNOWN_VARIANT, threw |-> FALSE,
          element |-> <<[path |-> path, content |-> payload]>>]

\* The serializer of an unknown element emits its content.
SerializeElement(e) == El(e).content

NoOp == [op |-> "none", elem |-> "", visitor |-> "", input |-> <<>>,
         output |-> <<>>, calls |-> <<>>, result |-> <<>>, threw |-> FALSE]

\* The deserializer builds the element for slot e from a payload.
Deserialize(e, path, payload) ==
    /\ ~Live(e)
    /\ LET r == DeserializeElement(path, payload) IN
        /\ elements' = [elements EXCEPT ![e] = r.element]
        /\ lastOp' = <<[NoOp EXCEPT !.op = "deserialize", !.elem = e,
                                    !.input = <<payload>>,
                                    !.result = <<r.variant>>,
                                    !.threw = r.threw]>>
    /\ UNCHANGED <<lastRead, modalVars>>

\* The serializer emits element e.  input is the payload e was built from
\* when nothing was done to e since.
Serialize(e) ==
    /\ Live(e)
    /\ lastOp' = <<[NoOp EXCEPT !.op = "serialize", !.elem = e,
                                !.input = IF /\ lastOp # <<>>
                                             /\ lastOp[1].op = "deserialize"
                                             /\ lastOp[1].elem = e
                                          THEN lastOp[1].input ELSE <<>>,
                                !.output = <<SerializeElement(e)>>]>>
    /\ UNCHANGED <<elements, lastRead, modalVars>>

\* content is a public, writable field: a caller assigns it.
SetContent(e, c) ==
    /\ Live(e)
    /\ c # El(e).content
    /\ elements' = [elements EXCEPT ![e] = <<[El(e) EXCEPT !.content = c]>>]
    /\ lastOp' = <<[NoOp EXCEPT !.op = "assign", !.elem = e]>>
    /\ UNCHANGED <<lastRead, modalVars>>

\* A slip of the hash read: the source information is deleted from the
\* element's own content while hashing.
HashCode_StripsInPlace(e) ==
    /\ Live(e)
    /\ lastRead' = <<[elem |-> e, path |-> El(e).path, content |-> El(e).content,
                      threw |-> _elementHashCode(e).threw,
                      hashCode |-> _elementHashCode(e).value]>>
    /\ elements' = [elements EXCEPT ![e] =
            <<[El(e) EXCEPT !.content.props =
                [leaf \in {l \in DOMAIN El(e).content.props : ~ExcludedLeaf(l)}
                    |-> El(e).content.props[leaf]]]>>]
    /\ UNCHANGED <<lastOp, modalVars>>

\* A caller reads the element's hash.
HashCode(e) ==
    /\ Live(e)
    /\ lastRead' = <<[elem |-> e, path |-> El(e).path, content |-> El(e).content,
                      threw |-> _elementHashCode(e).threw,
                      hashCode |-> _elementHashCode(e).value]>>
    /\ UNCHANGED <<elements, lastOp, modalVars>>

\* A caller passes a visitor to the element.
Accept(e, v) ==
    /\ Live(e)
    /\ LET r == accept_PackageableElementVisitor(e, v) IN
        lastOp' = <<[NoOp EXCEPT !.op = "accept", !.elem = e, !.visitor = v,
                                !.calls = r.calls, !.result = <<r.result>>,
                                !.threw = r.threw]>>
    /\ UNCHANGED <<elements, lastRead, modalVars>>

ElementNext ==
    \/ \E e \in Elements, path \in Paths, payload \in Payloads :
            Deserialize(e, path, payload)
    \/ \E e \in Elements : Serialize(e)
    \/ \E e \in Elements, c \in Contents : SetContent(e, c)
    \/ \E e \in Elements : HashCode(e)
    \/ \E e \in Elements, v \in Visitors : Accept(e, v)

\* The modal is not mounted while the element's operations run.
ElementSpecInit ==
    /\ elements = [e \in Elements |-> <<>>]
    /\ lastRead = <<>>
    /\ lastOp = <<>>
    /\ form = <<>> /\ registrationState = <<>> /\ run = <<>>
    /\ actionAlertInfo = <<>> /\ errorLog = {} /\ notifications = {}

ElementSpec == ElementSpecInit /\ [][ElementNext]_vars

---------------------------------------------------------------------------
(* Part 2: ServiceRegisterModal                                            *)

\* How many times 'Register Service' is clicked.
MaxRuns == 2
Runs == 1..MaxRuns

\* A string is the sequence of its characters; these are the characters
\* the model types.
WordChars == {"m", "Q", "u"}

\* /^(?:(?:\w[\w$]*)::)+\w[\w$]*$/ : one or more packages, then a name.
IsPathSegment(s) ==
    /\ Len(s) >= 1
    /\ s[1] \in WordChars
    /\ \A i \in DOMAIN s : s[i] \in WordChars \cup {"$"}

RECURSIVE MatchesFullPath(_, _)
MatchesFullPath(s, packaged) ==
    \/ packaged /\ IsPathSegment(s)
    \/ \E k \in 1..(Len(s) - 2) :
          /\ IsPathSegment(SubSeq(s, 1, k))
          /\ s[k + 1] = ":" /\ s[k + 2] = ":"
          /\ MatchesFullPath(SubSeq(s, k + 3, Len(s)), TRUE)

isValidFullPath(fullPath) == MatchesFullPath(fullPath, FALSE)

\* validate_ServicePattern(pattern): the errors found, none for a pattern
\* that is not empty and starts with '/'.
validate_ServicePattern(pattern) ==
    IF pattern = <<>> THEN {"Pattern must not be empty"}
    ELSE IF pattern[1] # "/" THEN {"Pattern must start with a '/'"}
    ELSE {}

\* useState('model::QueryService') and useState(`/${uuid()}`)
InitialServicePath == <<"m", ":", ":", "Q">>
InitialServicePattern == <<"/", "u">>

\* What the user types into the two inputs.
PathInputs == {InitialServicePath, <<"m", ":", "Q">>}
PatternInputs == {InitialServicePattern, <<>>}

\* config.options.TEMPORARY__serviceRegistrationConfig
SEMI_INTERACTIVE == "SEMI_INTERACTIVE"
serverRegistrationOptions ==
    <<[env |-> "dev", modes |-> {"FULL_INTERACTIVE", SEMI_INTERACTIVE},
       managementUrl |-> "https://dev"],
      [env |-> "prod", modes |-> {"PROD"}, managementUrl |-> "https://prod"]>>

envOptions ==
    {serverRegistrationOptions[i].env : i \in
        {j \in DOMAIN serverRegistrationOptions :
            SEMI_INTERACTIVE \in serverRegistrationOptions[j].modes}}

\* serviceEnv is undefined ("") or an environment; selectedEnvOption is
\* null (<<>>) exactly when serviceEnv is falsy.
selectedEnvOption(f) == IF f.serviceEnv = "" THEN <<>> ELSE <<f.serviceEnv>>

\* serverRegistrationOptions.find(option => option.env === env)?.managementUrl
FindManagementUrl(env) ==
    LET hits == {i \in DOMAIN serverRegistrationOptions :
                    serverRegistrationOptions[i].env = env}
    IN IF hits = {} THEN <<>>
       ELSE <<serverRegistrationOptions[CHOOSE i \in hits :
                    \A j \in hits : i <= j].managementUrl>>

\* ActionState
ActionState_create == [state |-> "INITIAL", message |-> ""]
ActionState_inProgress(s) == [s EXCEPT !.state = "IN_PROGRESS"]
ActionState_reset(s) == [s EXCEPT !.state = "INITIAL"]
ActionState_setMessage(s, m) == [s EXCEPT !.message = m]
ActionState_isInProgress(s) == s.state = "IN_PROGRESS"

IdleRun == [pc |-> "idle", cap |-> <<>>, calls |-> {}, sent |-> <<>>,
            pattern |-> <<>>, activated |-> FALSE, sawInProgress |-> FALSE,
            outcome |-> ""]

\* The modal as mounted; no element operation runs beside it.
ModalInit ==
    /\ elements = <<>> /\ lastRead = <<>> /\ lastOp = <<>>
    /\ form = [servicePath |-> InitialServicePath,
               servicePattern |-> InitialServicePattern,
               isServicePathValid |-> TRUE,
               isServiceUrlPatternValid |-> TRUE,
               serviceEnv |-> "",
               activateService |-> FALSE]
    /\ registrationState = ActionState_create
    /\ run = [r \in Runs |-> IdleRun]
    /\ actionAlertInfo = <<>>
    /\ errorLog = {}
    /\ notifications = {}

onChangeServicePath(value) ==
    /\ form' = [form EXCEPT !.servicePath = value,
                            !.isServicePathValid = isValidFullPath(value)]
    /\ UNCHANGED <<registrationState, run, actionAlertInfo, errorLog,
                   notifications, elementVars>>

onChangeServicePattern(value) ==
    /\ form' = [form EXCEPT !.servicePattern = value,
                            !.isServiceUrlPatternValid =
                                (validate_ServicePattern(value) = {})]
    /\ UNCHANGED <<registrationState, run, actionAlertInfo, errorLog,
                   notifications, elementVars>>

\* val is one of envOptions or null (<<>>)
onServerEnvChange(val) ==
    /\ form' = [form EXCEPT !.serviceEnv = IF val = <<>> THEN "" ELSE val[1]]
    /\ UNCHANGED <<registrationState, run, actionAlertInfo, errorLog,
                   notifications, elementVars>>

toggleActivateService ==
    /\ form' = [form EXCEPT !.activateService = ~form.activateService]
    /\ UNCHANGED <<registrationState, run, actionAlertInfo, errorLog,
                   notifications, elementVars>>

\* Slips of the guard of registerService.
GuardReturns_IgnoresInProgress(cap) ==
    \/ cap.servicePath = <<>>
    \/ cap.servicePattern = <<>>
    \/ ~cap.isServicePathValid
    \/ ~cap.isServiceUrlPatternValid
    \/ selectedEnvOption(cap) = <<>>

GuardReturns_IgnoresValidity(cap) ==
    \/ ActionState_isInProgress(registrationState)
    \/ cap.servicePath = <<>>
    \/ cap.servicePattern = <<>>
    \/ selectedEnvOption(cap) = <<>>

\* The guard of registerService: registrationState is read when the guard
\* runs, everything else is the state of the render whose callback this is.
GuardReturns(cap) ==
    \/ ActionState_isInProgress(registrationState)
    \/ cap.servicePath = <<>>
    \/ cap.servicePattern = <<>>
    \/ ~cap.isServicePathValid
    \/ ~cap.isServiceUrlPatternValid
    \/ selectedEnvOption(cap) = <<>>

\* A slip of the finally block: the message is cleared, the state is not
\* reset.
Finally_KeepsInProgress(s) == ActionState_setMessage(s, "")

\* finally { registrationState.reset(); registrationState.setMessage(undefined) }
Finally(s) == ActionState_setMessage(ActionState_reset(s), "")

InTry(pc) == pc \in {"createServiceElement", "registerService", "activateService"}

\* An error thrown before the try block reaches guardUnhandledError.
Unhandled(r) ==
    /\ run' = [run EXCEPT ![r] = [@ EXCEPT !.pc = "done", !.cap = <<>>,
                                           !.outcome = "unhandled"]]
    /\ notifications' = notifications \cup {[kind |-> "unhandled", run |-> r]}
    /\ UNCHANGED <<form, registrationState, actionAlertInfo, errorLog>>

\* catch: log SERVICE_REGISTRATION_FAILURE, notifyError; then finally.
CatchFinally(r, rs) ==
    /\ run' = [run EXCEPT ![r] = [@ EXCEPT !.pc = "done", !.cap = <<>>,
                                           !.outcome = "error"]]
    /\ errorLog' = errorLog \cup
            {[event |-> "SERVICE_REGISTRATION_FAILURE", run |-> r]}
    /\ notifications' = notifications \cup {[kind |-> "error", run |-> r]}
    /\ registrationState' = Finally(rs)
    /\ UNCHANGED <<form, actionAlertInfo>>

\* assertNonEmptyString(pattern), setActionAlertInfo; then finally.
AssertAndAlert(r, pattern, activated) ==
    IF pattern = <<>>
    THEN /\ run' = [run EXCEPT ![r] = [@ EXCEPT !.pc = "done", !.cap = <<>>,
                                                !.pattern = <<pattern>>,
                                                !.activated = activated,
                                                !.outcome = "error"]]
         /\ errorLog' = errorLog \cup
                {[event |-> "SERVICE_REGISTRATION_FAILURE", run |-> r]}
         /\ notifications' = notifications \cup {[kind |-> "error", run |-> r]}
         /\ registrationState' = Finally(registrationState)
         /\ UNCHANGED <<form, actionAlertInfo>>
    ELSE /\ run' = [run EXCEPT ![r] = [@ EXCEPT !.pc = "done", !.cap = <<>>,
                                                !.pattern = <<pattern>>,
                                                !.activated = activated,
                                                !.outcome = "success"]]
         /\ actionAlertInfo' = <<[run |-> r, pattern |-> pattern,
                                  activated |-> run[r].cap[1].activateService]>>
         /\ registrationState' = Finally(registrationState)
         /\ UNCHANGED <<form, errorLog, notifications>>

\* A click on 'Register Service' calls the callback of the current render,
\* which keeps that render's state.  Runs are numbered in the order of the
\* clicks.
Click(r) ==
    /\ run[r].pc = "idle"
    /\ \A q \in Runs : q < r => run[q].pc # "idle"
    /\ run' = [run EXCEPT ![r] = [@ EXCEPT !.pc = "getProject",
                                           !.cap = <<form>>]]
    /\ UNCHANGED <<form, registrationState, actionAlertInfo, errorLog,
                   notifications, elementVars>>

\* await depotServerClient.getProject(...) settles.
GetProjectDone(r, ok) ==
    /\ run[r].pc = "getProject"
    /\ IF ok
       THEN /\ run' = [run EXCEPT ![r].pc = "getQueryInfo"]
            /\ UNCHANGED <<form, registrationState, actionAlertInfo,
                           errorLog, notifications>>
       ELSE Unhandled(r)
    /\ UNCHANGED elementVars

\* await graphManager.getQueryInfo(...) settles; the callback then runs
\* through the guard up to the call of createServiceElement.
GetQueryInfoDone(r, ok) ==
    /\ run[r].pc = "getQueryInfo"
    /\ IF ~ok THEN Unhandled(r)
       ELSE IF GuardReturns(run[r].cap[1])
       THEN /\ run' = [run EXCEPT ![r] =
                    [@ EXCEPT !.pc = "done", !.cap = <<>>,
                              !.outcome = "skipped",
                              !.sawInProgress =
                                  ActionState_isInProgress(registrationState)]]
            /\ UNCHANGED <<form, registrationState, actionAlertInfo,
                           errorLog, notifications>>
       ELSE IF FindManagementUrl(selectedEnvOption(run[r].cap[1])[1]) = <<>>
       THEN CatchFinally(r, ActionState_inProgress(registrationState))
       ELSE /\ registrationState' =
                    ActionState_setMessage(
                        ActionState_inProgress(registrationState),
                        "Registering service...")
            /\ run' = [run EXCEPT ![r] =
                    [@ EXCEPT !.pc = "createServiceElement",
                              !.calls = @ \cup {"createServiceElement"}]]
            /\ UNCHANGED <<form, actionAlertInfo, errorLog, notifications>>
    /\ UNCHANGED elementVars

\* await createServiceElement(...) settles; on success
\* graphManager.registerService is called with the captured path and pattern.
CreateServiceElementDone(r, ok) ==
    /\ run[r].pc = "createServiceElement"
    /\ IF ok
       THEN /\ run' = [run EXCEPT ![r] =
                    [@ EXCEPT !.pc = "registerService",
                              !.calls = @ \cup {"registerService"},
                              !.sent = <<[servicePath |-> run[r].cap[1].servicePath,
                                          servicePattern |-> run[r].cap[1].servicePattern,
                                          serverUrl |-> FindManagementUrl(
                                              run[r].cap[1].serviceEnv)[1]]>>]]
            /\ UNCHANGED <<form, registrationState, actionAlertInfo,
                           errorLog, notifications>>
       ELSE CatchFinally(r, registrationState)
    /\ UNCHANGED elementVars

\* await graphManager.registerService(...) settles with a result whose
\* pattern may be empty.
RegisterServiceDone(r, ok, pattern) ==
    /\ run[r].pc = "registerService"
    /\ IF ~ok THEN CatchFinally(r, registrationState)
       ELSE IF run[r].cap[1].activateService
       THEN /\ registrationState' =
                    ActionState_setMessage(registrationState,
                                           "Activating service...")
            /\ run' = [run EXCEPT ![r] =
                    [@ EXCEPT !.pc = "activateService",
                              !.pattern = <<pattern>>,
                              !.calls = @ \cup {"activateService"}]]
            /\ UNCHANGED <<form, actionAlertInfo, errorLog, notifications>>
       ELSE AssertAndAlert(r, pattern, FALSE)
    /\ UNCHANGED elementVars

\* await graphManager.activateService(...) settles.
ActivateServiceDone(r, ok) ==
    /\ run[r].pc = "activateService"
    /\ IF ok
       THEN AssertAndAlert(r, run[r].pattern[1], TRUE)
       ELSE CatchFinally(r, registrationState)
    /\ UNCHANGED elementVars

\* What registerService(...) may return as its pattern.
ResultPatterns == {<<>>, <<"/", "u">>}

ModalNext ==
    \/ \E value \in PathInputs : onChangeServicePath(value)
    \/ \E value \in PatternInputs : onChangeServicePattern(value)
    \/ \E val \in {<<>>} \cup {<<env>> : env \in envOptions} :
            onServerEnvChange(val)
    \/ toggleActivateService
    \/ \E r \in Runs : Click(r)
    \/ \E r \in Runs, ok \in BOOLEAN : GetProjectDone(r, ok)
    \/ \E r \in Runs, ok \in BOOLEAN : GetQueryInfoDone(r, ok)
    \/ \E r \in Runs, ok \in BOOLEAN : CreateServiceElementDone(r, ok)
    \/ \E r \in Runs, ok \in BOOLEAN, pattern \in ResultPatterns :
            RegisterServiceDone(r, ok, pattern)
    \/ \E r \in Runs, ok \in BOOLEAN : ActivateServiceDone(r, ok)

ModalSpec == ModalInit /\ [][ModalNext]_vars

\* The backend settles the call run r is waiting for.  A run waits for one
\* call at a time.
BackendStep(r) ==
    \/ \E ok \in BOOLEAN : GetProjectDone(r, ok)
    \/ \E ok \in BOOLEAN : GetQueryInfoDone(r, ok)
    \/ \E ok \in BOOLEAN : CreateServiceElementDone(r, ok)
    \/ \E ok \in BOOLEAN, pattern \in ResultPatterns :
            RegisterServiceDone(r, ok, pattern)
    \/ \E ok \in BOOLEAN : ActivateServiceDone(r, ok)

\* Every awaited backend call eventually returns or fails.
BackendSettles == \A r \in Runs : WF_vars(BackendStep(r))

ModalFairSpec ==
    ModalInit /\ [][ModalNext]_vars /\ BackendSettles

---------------------------------------------------------------------------
(* Properties of the unknown element, checked under ElementSpec            *)

\* Two contents that are equal once every source information property is
\* left out: the same discriminator and the same semantic leaves.
SameSemantics(c1, c2) ==
    /\ c1._type = c2._type
    /\ {l \in DOMAIN c1.props : l \notin SourceLeaves}
         = {l \in DOMAIN c2.props : l \notin SourceLeaves}
    /\ \A l \in DOMAIN c1.props :
          l \notin SourceLeaves => c1.props[l] = c2.props[l]

HasSourceInformation(c) == DOMAIN c.props \cap SourceLeaves # {}

\* C1: two successive hash reads, of any two elements, with the same path
\* and contents that differ at most in source information return the same
\* hash.
C1_HashIgnoresSourceInformation ==
    [][(/\ lastRead # <<>> /\ lastRead' # <<>>
        /\ lastRead'[1].path = lastRead[1].path
        /\ SameSemantics(lastRead[1].content, lastRead'[1].content))
       => lastRead'[1].hashCode = lastRead[1].hashCode]_vars

\* A read of an element whose twin (same path, same semantics, other
\* source information) hashes to the value read.
C1_Witness ==
    /\ lastRead # <<>>
    /\ \E e \in Elements :
          /\ Live(e) /\ e # lastRead[1].elem
          /\ El(e).path = lastRead[1].path
          /\ El(e).content # lastRead[1].content
          /\ HasSourceInformation(El(e).content)
          /\ SameSemantics(El(e).content, lastRead[1].content)
          /\ _elementHashCode(e).value = lastRead[1].hashCode

\* C2: two successive hash reads of elements with different paths and the
\* same content return different hashes.
C2_PathIsHashSignificant ==
    [][(/\ lastRead # <<>> /\ lastRead' # <<>>
        /\ lastRead'[1].path # lastRead[1].path
        /\ lastRead'[1].content = lastRead[1].content)
       => lastRead'[1].hashCode # lastRead[1].hashCode]_vars

\* A read of an element while another element holds the same content under
\* another path, and hashes differently.
C2_Witness ==
    /\ lastRead # <<>>
    /\ \E e \in Elements :
          /\ Live(e)
          /\ El(e).path # lastRead[1].path
          /\ El(e).content = lastRead[1].content
          /\ _elementHashCode(e).value # lastRead[1].hashCode

\* C3: accept makes exactly one visitor call, of
\* visit_INTERNAL__UnknownPackageableElement with the element itself, and
\* returns what that call returned.
C3_AcceptDispatchesOnce ==
    (lastOp # <<>> /\ lastOp[1].op = "accept") =>
        /\ lastOp[1].calls =
              <<[method |-> "visit_INTERNAL__UnknownPackageableElement",
                 arg |-> lastOp[1].elem]>>
        /\ lastOp[1].result =
              <<Invoke(lastOp[1].visitor,
                       "visit_INTERNAL__UnknownPackageableElement",
                       lastOp[1].elem)>>
        /\ ~lastOp[1].threw

\* Both visitors have been accepted by an element.
C3_Witness ==
    /\ lastOp # <<>> /\ lastOp[1].op = "accept"
    /\ lastOp[1].visitor = "validator"
    /\ Live(lastOp[1].elem)

\* C4: of two successive reads of one element's hash, the second returns
\* the first's value when the content is the same, and another value when
\* the content differs in a semantic field.
C4_HashIsDerived ==
    [][(/\ lastRead # <<>> /\ lastRead' # <<>>
        /\ lastRead'[1].elem = lastRead[1].elem)
       => /\ (lastRead'[1].content = lastRead[1].content
                => lastRead'[1].hashCode = lastRead[1].hashCode)
          /\ (~SameSemantics(lastRead'[1].content, lastRead[1].content)
                => lastRead'[1].hashCode # lastRead[1].hashCode)]_vars

\* An element was read, then its content.bar was assigned another value:
\* the hash of the element now is not the hash read.
C4_Witness ==
    /\ lastRead # <<>> /\ lastOp # <<>>
    /\ lastOp[1].op = "assign" /\ lastOp[1].elem = lastRead[1].elem
    /\ lastRead[1].content.props[<<"bar">>] = 1
    /\ El(lastRead[1].elem).content.props[<<"bar">>] = 2
    /\ _elementHashCode(lastRead[1].elem).value # lastRead[1].hashCode

C6_ImmutableOnceConstructed ==
    [][\A e \in Elements : Live(e) => elements'[e] = elements[e]]_vars

\* C6 as amended: the path of a constructed element never changes, and
\* reading the hash, accepting a visitor and serializing leave path and
\* content of every element as they are; content itself is a writable field.
C6_OwnOperationsLeaveElement ==
    [][/\ \A e \in Elements :
            Live(e) => /\ elements'[e] # <<>>
                       /\ elements'[e][1].path = elements[e][1].path
       /\ (lastRead' # lastRead => elements' = elements)
       /\ (/\ lastOp' # lastOp
           /\ lastOp'[1].op \in {"accept", "serialize"})
          => elements' = elements]_vars

\* An element with source information in its content was hashed and then
\* visited, and still holds the content that was hashed.
C6_Witness ==
    /\ lastRead # <<>> /\ lastOp # <<>>
    /\ lastOp[1].op = "accept" /\ lastOp[1].elem = lastRead[1].elem
    /\ HasSourceInformation(lastRead[1].content)
    /\ El(lastRead[1].elem).content = lastRead[1].content

---------------------------------------------------------------------------
(* Properties of the modal, checked under ModalSpec and ModalFairSpec      *)

RunsInTry == {r \in Runs : InTry(run[r].pc)}

\* C8: at most one run is between inProgress() and reset(); a run that
\* meets the guard while another is in progress ends there, having called
\* no backend function and having left registrationState as it was.
C8_OneRegistrationAtATime ==
    /\ [](/\ Cardinality(RunsInTry) <= 1
          /\ ActionState_isInProgress(registrationState) <=> RunsInTry # {}
          /\ \A r \in Runs :
                run[r].sawInProgress =>
                    /\ run[r].pc = "done"
                    /\ run[r].outcome = "skipped"
                    /\ run[r].calls = {}
                    /\ run[r].sent = <<>>)
    /\ [][\A r \in Runs :
            (/\ run[r].pc = "getQueryInfo"
             /\ run'[r] # run[r]
             /\ ActionState_isInProgress(registrationState))
            => /\ run'[r].pc = "done"
               /\ run'[r].calls = {}
               /\ registrationState' = registrationState
               /\ actionAlertInfo' = actionAlertInfo]_vars

\* A run met the guard while another run was registering, and that other
\* run is still waiting for the backend.
C8_Witness ==
    \E r, q \in Runs :
        /\ run[r].sawInProgress
        /\ run[q].pc = "registerService"
        /\ ActionState_isInProgress(registrationState)

\* C9: a run that entered the try block gets to its end when the backend
\* settles every call; when it ends registrationState is reset with no
\* message, and the run either set the action alert (the pattern returned
\* is not empty and, with activation selected, activation completed) or
\* logged SERVICE_REGISTRATION_FAILURE and notified the error, never both.
C9_RegistrationEndsReset ==
    /\ \A r \in Runs : InTry(run[r].pc) ~> (run[r].pc = "done")
    /\ [][\A r \in Runs :
            (/\ run[r].pc # "done" /\ run'[r].pc = "done"
             /\ run'[r].outcome \notin {"skipped", "unhandled"})
            => /\ registrationState' = ActionState_create
               /\ \/ /\ run'[r].outcome = "success"
                     /\ actionAlertInfo' # <<>>
                     /\ actionAlertInfo'[1].run = r
                     /\ run'[r].pattern # <<>>
                     /\ run'[r].pattern[1] # <<>>
                     /\ actionAlertInfo'[1].pattern = run'[r].pattern[1]
                     /\ run[r].cap[1].activateService => run'[r].activated
                     /\ errorLog' = errorLog
                     /\ notifications' = notifications
                  \/ /\ run'[r].outcome = "error"
                     /\ actionAlertInfo' = actionAlertInfo
                     /\ [event |-> "SERVICE_REGISTRATION_FAILURE", run |-> r]
                            \in errorLog' \ errorLog
                     /\ [kind |-> "error", run |-> r]
                            \in notifications' \ notifications]_vars

\* One run registered and activated a service, another failed in the try
\* block, and registrationState is back in its initial state.
C9_Witness ==
    /\ registrationState = ActionState_create
    /\ \E r, q \in Runs :
          /\ run[r].outcome = "success" /\ run[r].activated
          /\ run[q].outcome = "error" /\ "registerService" \in run[q].calls

\* C10: what graphManager.registerService is sent is a non-empty valid
\* path and a non-empty valid pattern for a configured environment, the
\* run that sent it captured a render with both validity flags true and an
\* environment selected, and in every render (the current one and the
\* captured ones) each validity flag is the validator's verdict on its
\* input.
C10_OnlyValidInputRegistered ==
    /\ form.isServicePathValid = isValidFullPath(form.servicePath)
    /\ form.isServiceUrlPatternValid
          = (validate_ServicePattern(form.servicePattern) = {})
    /\ \A r \in Runs :
          /\ run[r].cap # <<>> =>
                /\ run[r].cap[1].isServicePathValid
                      = isValidFullPath(run[r].cap[1].servicePath)
                /\ run[r].cap[1].isServiceUrlPatternValid
                      = (validate_ServicePattern(run[r].cap[1].servicePattern) = {})
          /\ run[r].sent # <<>> =>
                /\ run[r].sent[1].servicePath # <<>>
                /\ isValidFullPath(run[r].sent[1].servicePath)
                /\ run[r].sent[1].servicePattern # <<>>
                /\ validate_ServicePattern(run[r].sent[1].servicePattern) = {}
          /\ "registerService" \in run[r].calls <=> run[r].sent # <<>>
          /\ (run[r].pc \in {"registerService", "activateService"}) =>
                /\ run[r].cap[1].servicePath = run[r].sent[1].servicePath
                /\ run[r].cap[1].servicePattern = run[r].sent[1].servicePattern
                /\ run[r].cap[1].isServicePathValid
                /\ run[r].cap[1].isServiceUrlPatternValid
                /\ selectedEnvOption(run[r].cap[1]) # <<>>

\* A run is registering the path and pattern it captured while the form
\* has since been edited into an invalid path and an empty pattern.
C10_Witness ==
    /\ ~form.isServicePathValid /\ ~form.isServiceUrlPatternValid
    /\ form.servicePattern = <<>>
    /\ \E r \in Runs : run[r].pc = "registerService" /\ run[r].sent # <<>>

===========================================================================
